---- MODULE Spec2Model ----
(***************************************************************************)
(* The browser-driven verification scripts of src/verification, as one     *)
(* state machine.  Every script is a straight-line Python program over a   *)
(* Playwright page: it is transcribed statement by statement into a        *)
(* sequence of instructions (one per page call, sleep, branch, raise, ...) *)
(* that carries the source line, the selector or file the call names, its  *)
(* timeout and the try-blocks that enclose it.  One interpreter executes   *)
(* the instructions with Python's exception rules (except / finally /      *)
(* raise / function call); the page is the environment: every page call    *)
(* may succeed or raise, every polled condition may hold or not at a poll. *)
(***************************************************************************)
EXTENDS Integers, Sequences, FiniteSets, TLC

VARIABLES
  script,      \* the script being run
  pc,          \* index of the next instruction in Prog
  stack,       \* call stack: frames [site, name]
  name,        \* argument of the running add_place(name) call
  exc,         \* the exception being handled or propagated
  saved,       \* the exception whose except clause raised exc
  launched,    \* chromium.launch() has returned a browser
  closeCount,  \* number of browser.close() calls made
  shots,       \* screenshot files written by this run
  exit,        \* exit status of the process (NoExit while running)
  reports,     \* outcomes the run has reported: messages and exit status
  elapsed,     \* polls the current (or last) wait has made without success
  waitRes,     \* "none" | "ok" | "timeout": how the last wait ended
  waitLine,    \* source line of the current (or last) wait
  cond,        \* the waited condition holds on the page at this poll
  count,       \* last value of page.get_by_text("Test Track").count()
  fs,          \* the files and directories on disk, as <<path, name>>
  run,         \* 1 for the first run of the script, 2 for a second one
  first,       \* how the first run ended, once a second one has begun
  oracle,      \* the page's behaviour, when it is fixed for both runs
  request,     \* the request the browser hands to handle_route
  response,    \* what handle_route did with it
  hist         \* history of the run, read by the properties only

vars == <<script, pc, stack, name, exc, saved, launched, closeCount, shots, exit,
          reports, elapsed, waitRes, waitLine, cond, count, fs, run, first,
          oracle, request, response, hist>>

(***************************************************************************)
(* Bounds of the model.                                                    *)
(***************************************************************************)
PollsPerSecond == 1     \* polls a wait makes per second of its timeout
MaxCount == 5           \* largest element count a page query returns
MaxTrim == 2            \* characters a query may lack at either end
MaxElems == 2           \* elements on the page a selector is matched against
MaxFail == 2            \* page calls the page fails in a repeated run

(***************************************************************************)
(* Timeouts, in seconds.                                                   *)
(***************************************************************************)
DefaultTimeout == 30    \* wait_for_selector / wait_for without timeout=
ExpectTimeout == 5      \* expect(...) without timeout=

NoExit == 0 - 1
AllKinds == {"Error", "Timeout", "Assertion"}
NoExc == [kind |-> "none", line |-> 0]

(***************************************************************************)
(* Instructions.  h is the list of enclosing handlers, innermost first:    *)
(* an except clause or a finally block, named by the line of its first     *)
(* instruction, with the exception kinds it catches.                       *)
(***************************************************************************)
H(l) == [at |-> l, kinds |-> AllKinds]
HAssert(l) == [at |-> l, kinds |-> {"Assertion"}]
NoH == <<>>

Ins(l, op, sel, T, tgt, h) ==
  [line |-> l, op |-> op, arg |-> sel, T |-> T, tgt |-> tgt, h |-> h]

Launch(l)            == Ins(l, "launch", "", 0, 0, NoH)
Setup(l, h)          == Ins(l, "setup", "", 0, 0, h)
Listen(l, ev, h)     == Ins(l, "setup", ev, 0, 0, h)
Goto(l, h)           == Ins(l, "goto", "http://localhost:3000", 0, 0, h)
Wait(l, sel, T, h)   == Ins(l, "wait", sel, T, 0, h)
Expect(l, sel, T, h) == Ins(l, "expect", sel, T, 0, h)
Act(l, sel, h)       == Ins(l, "act", sel, 0, 0, h)
Upload(l, path, h)   == Ins(l, "upload", path, 0, 0, h)
Query(l, sel, h)     == Ins(l, "query", sel, 0, 0, h)
Count(l, sel, h)     == Ins(l, "count", sel, 0, 0, h)
Br(l, sel, else, h)  == Ins(l, "br", sel, 0, else, h)
IfLt(l, sel, k, else) == Ins(l, "iflt", sel, k, else, NoH)
Sleep(l)             == Ins(l, "sleep", "", 0, 0, NoH)
Shot(l, path, h)     == Ins(l, "shot", path, 0, 0, h)
Fs(l, path, h)       == Ins(l, "fs", path, 0, 0, h)
Close(l, h)          == Ins(l, "close", "", 0, 0, h)
Jmp(l, tgt)          == Ins(l, "jmp", "", 0, tgt, NoH)
Call(l, tgt, a, h)   == Ins(l, "call", a, 0, tgt, h)
Ret(l)               == Ins(l, "ret", "", 0, 0, NoH)
Report(l, h)         == Ins(l, "report", "", 0, 0, h)
Pass(l, h)           == Ins(l, "pass", "", 0, 0, h)
Raise(l, h)          == Ins(l, "raise", "", 0, 0, h)
Throw(l, h)          == Ins(l, "throw", "", 0, 0, h)
EndExc(l, tgt)       == Ins(l, "endexc", "", 0, tgt, NoH)
EndInner(l, tgt)     == Ins(l, "endinner", "", 0, tgt, NoH)
EndFin(l, h)         == Ins(l, "endfin", "", 0, 0, h)

(***************************************************************************)
(* verify_changes.py                                                       *)
(***************************************************************************)
ChangesLoad ==
  << Listen(5, "console", NoH), Listen(6, "pageerror", NoH), Goto(10, NoH),
     Wait(14, "text=Add Files", 10, <<H(16)>>),
     Jmp(15, 25),
     Br(16, "text=Processing...", 18, NoH),
     Shot(18, "verification/timeout.png", NoH),
     Raise(19, NoH) >>

ChangesAddPlace ==
  << Act(25, "text=Add Place", NoH),
     Wait(27, "input[placeholder*='Type to search']", 5, NoH),
     Act(28, "input[placeholder*='Type to search']", NoH),
     Sleep(29) >>

\* ChangesSearch with the result wait given the input wait's 5 s timeout
ChangesSearchShortWait ==
  << Wait(33, "li", 5, <<H(36)>>),
     Act(34, "li", <<H(36)>>),
     Jmp(35, 43),
     Report(36, NoH),
     Shot(37, "verification/search_fail.png", NoH),
     Raise(38, NoH) >>

ChangesSearch ==
  << Wait(33, "li", 10, <<H(36)>>),
     Act(34, "li", <<H(36)>>),
     Jmp(35, 43),
     Report(36, NoH),
     Shot(37, "verification/search_fail.png", NoH),
     Raise(38, NoH) >>

ChangesListUpdate ==
  << Wait(43, "div[role='listitem']", 5, <<H(47)>>),
     Jmp(45, 52),
     Shot(47, "verification/add_fail.png", NoH),
     Raise(48, NoH) >>

\* ChangesExport with the wait for the menu outside any try
ChangesExportNoTry ==
  << Wait(52, "text=Places", DefaultTimeout, NoH),
     Br(56, "button:has-text('Export')", 78, NoH),
     Br(57, "button:has-text('Export')", 62, NoH),
     Shot(59, "verification/disabled_export.png", NoH),
     Jmp(60, 78),
     Act(62, "button:has-text('Export')", NoH),
     Wait(64, "text=GeoJSON", 3, NoH),
     Shot(66, "verification/export_menu.png", NoH),
     Act(68, "body", NoH),
     Jmp(69, 78),
     Shot(71, "verification/menu_fail.png", NoH),
     EndExc(72, 78) >>

ChangesExport ==
  << Wait(52, "text=Places", DefaultTimeout, NoH),
     Br(56, "button:has-text('Export')", 78, NoH),
     Br(57, "button:has-text('Export')", 62, NoH),
     Shot(59, "verification/disabled_export.png", NoH),
     Jmp(60, 78),
     Act(62, "button:has-text('Export')", NoH),
     Wait(64, "text=GeoJSON", 3, <<H(71)>>),
     Shot(66, "verification/export_menu.png", <<H(71)>>),
     Act(68, "body", <<H(71)>>),
     Jmp(69, 78),
     Shot(71, "verification/menu_fail.png", NoH),
     EndExc(72, 78) >>

ChangesMultiSelect ==
  << Br(78, "button:has-text('Select')", 97, NoH),
     Act(79, "button:has-text('Select')", NoH),
     Wait(80, "text=0 Selected", DefaultTimeout, NoH),
     Br(83, "input[type='checkbox']", 90, NoH),
     Act(84, "input[type='checkbox']", NoH),
     Wait(85, "text=1 Selected", DefaultTimeout, NoH),
     Shot(86, "verification/multi_select.png", NoH),
     Act(90, "button:has-text('Cancel')", NoH),
     Jmp(91, 97) >>

ChangesSettings ==
  << Br(97, "text=Advanced Mode", 116, NoH),
     Act(98, "text=Advanced Mode", NoH),
     Wait(99, "text=Text Styling", DefaultTimeout, NoH),
     Shot(100, "verification/global_settings.png", NoH) >>

ChangesHover ==
  << Br(116, ".leaflet-container", 128, NoH),
     Act(119, ".leaflet-container", NoH),
     Sleep(120),
     Query(125, ".leaflet-container", NoH),
     Ret(128) >>

\* ChangesMain with the launch inside the try block
ChangesMainLaunchInTry ==
  << Ins(132, "launch", "", 0, 0, <<H(137)>>), Setup(133, NoH),
     Call(135, 5, "", <<H(137)>>),
     Jmp(136, 140),
     Report(137, <<H(140)>>),
     Shot(138, "verification/error.png", <<H(140)>>),
     EndExc(139, 140),
     Close(140, NoH),
     EndFin(141, NoH) >>

ChangesMain ==
  << Launch(132), Setup(133, NoH),
     Call(135, 5, "", <<H(137)>>),
     Jmp(136, 140),
     Report(137, <<H(140)>>),
     Shot(138, "verification/error.png", <<H(140)>>),
     EndExc(139, 140),
     Close(140, NoH),
     EndFin(141, NoH) >>

ProgChanges ==
  ChangesLoad \o ChangesAddPlace \o ChangesSearch \o ChangesListUpdate \o
  ChangesExport \o ChangesMultiSelect \o ChangesSettings \o ChangesHover \o
  ChangesMain

(***************************************************************************)
(* verify_place_editing.py: no try block at all.                           *)
(***************************************************************************)
EditingAdd ==
  << Launch(5), Setup(6, NoH), Setup(7, NoH), Goto(10, NoH),
     Wait(14, "button:has-text('Add Place')", DefaultTimeout, NoH),
     Shot(18, "verification/step1_before_add.png", NoH),
     Act(19, "button >> has_text=Add Place", NoH),
     Wait(22, "text=Search Location", DefaultTimeout, NoH),
     Shot(24, "verification/step2_after_add.png", NoH),
     Act(28, "input[placeholder*='Type to search']", NoH),
     Wait(30, "li:has-text('London')", 10, NoH),
     Act(32, "li:has-text('London')", NoH),
     Wait(36, "div:has-text('London')", DefaultTimeout, NoH) >>

EditingZoom ==
  << Act(41, "span >> has_text=London", NoH),
     Sleep(44),
     Query(50, ".leaflet-container", NoH),
     Act(57, "mouse.click(center)", NoH) >>

EditingOverlay ==
  << Wait(62, "text=Edit Place", 5, <<H(67)>>),
     Jmp(64, 73),
     Act(67, "mouse.click(center + 10)", NoH),
     Wait(68, "text=Edit Place", 5, NoH),
     EndExc(69, 73) >>

EditingTitle ==
  << Act(73, "div >> has_text=Title >> input", NoH),
     Act(74, "keyboard.press(Enter)", NoH),
     Expect(77, "span >> has_text=New London", ExpectTimeout, NoH) >>

\* EditingEnd with the final screenshot taken after browser.close()
EditingEndShotAfterClose ==
  << Close(81, NoH),
     Shot(83, "verification/verification.png", NoH) >>

EditingEnd ==
  << Shot(81, "verification/verification.png", NoH),
     Close(83, NoH) >>

ProgEditing ==
  EditingAdd \o EditingZoom \o EditingOverlay \o EditingTitle \o EditingEnd

(***************************************************************************)
(* verify_places_rendering.py                                              *)
(***************************************************************************)
RenderingLoad ==
  << Fs(7, "verification", NoH), Launch(11), Setup(13, NoH),
     Goto(17, <<H(90)>>),
     Wait(21, ".leaflet-container", 10, <<H(90)>>),
     Sleep(22),
     Shot(25, "verification/initial_load.png", <<H(90)>>) >>

RenderingDialog ==
  << Br(38, "text=Add Place", 93, <<H(90)>>),
     Act(39, "text=Add Place", <<H(90)>>),
     Sleep(43),
     Shot(44, "verification/add_place_dialog.png", <<H(90)>>),
     Br(50, "placeholder=Type to search (min 3 chars)...", 93, <<H(90)>>),
     Act(51, "placeholder=Type to search (min 3 chars)...", <<H(90)>>),
     Act(52, "placeholder=Type to search (min 3 chars)... >> Enter", <<H(90)>>) >>

RenderingResults ==
  << Wait(63, "ul li", 15, <<H(83), H(90)>>),
     Br(67, "ul li", 93, <<H(83), H(90)>>),
     Act(69, "ul li >> first", <<H(83), H(90)>>),
     Sleep(72),
     Shot(78, "verification/place_added.png", <<H(83), H(90)>>),
     Jmp(82, 93),
     Report(83, <<H(90)>>),
     EndExc(84, 93) >>

RenderingEnd ==
  << Report(90, <<H(93)>>),
     Shot(91, "verification/error.png", <<H(93)>>),
     EndExc(92, 93),
     Close(93, NoH),
     EndFin(94, NoH) >>

ProgRendering ==
  RenderingLoad \o RenderingDialog \o RenderingResults \o RenderingEnd

(***************************************************************************)
(* verify_geocoding.py                                                     *)
(***************************************************************************)
GeocodingSteps ==
  << Launch(5), Setup(6, NoH), Setup(7, NoH), Listen(10, "console", NoH),
     Goto(15, <<H(52)>>),
     Wait(19, "text=Add Place", DefaultTimeout, <<H(52)>>),
     Act(23, "text=Add Place", <<H(52)>>),
     Wait(27, "input[placeholder='Search for a location...']",
          DefaultTimeout, <<H(52)>>),
     Act(31, "input[placeholder='Search for a location...']", <<H(52)>>),
     Wait(36, "ul > li", 15, <<H(52)>>),
     Query(39, "ul > li:first-child", <<H(52)>>),
     Shot(47, "verification/geocoding_dialog_results.png", <<H(52)>>),
     Pass(49, <<H(52)>>),
     Jmp(51, 66) >>

GeocodingHandler ==
  << Report(52, <<H(66)>>),
     Shot(53, "verification/geocoding_failure.png", <<H(66)>>),
     Query(57, "page.content()", <<H(63), H(66)>>),
     Br(59, ".text-red-500", 64, <<H(63), H(66)>>),
     Query(60, ".text-red-500", <<H(63), H(66)>>),
     Jmp(62, 64),
     EndInner(63, 64),
     Raise(64, <<H(66)>>) >>

GeocodingEnd ==
  << Close(66, NoH), EndFin(67, NoH) >>

ProgGeocoding == GeocodingSteps \o GeocodingHandler \o GeocodingEnd

(***************************************************************************)
(* verify_top_bottom.py                                                    *)
(***************************************************************************)
TopBottomAddPlace ==
  << Act(87, "button:has-text('Add Place')", <<H(101)>>),
     Act(88, "input[placeholder*='Type to search']", <<H(101)>>),
     Wait(92, ".fixed li:has-text('{name}')", DefaultTimeout, <<H(101)>>),
     Act(93, ".fixed li:has-text('{name}')", <<H(101)>>),
     Wait(99, "div[role='list'] >> text='{name}'", DefaultTimeout, <<H(101)>>),
     Jmp(100, 104),
     Report(101, NoH),
     Shot(102, "verification/error_adding_{name}.png", NoH),
     Raise(103, NoH),
     Ret(104) >>

TopBottomOpen ==
  << Launch(8), Setup(9, NoH), Setup(10, NoH), Listen(79, "route", NoH),
     Goto(81, NoH),
     Wait(82, "button:has-text('Add Place')", DefaultTimeout, NoH) >>

TopBottomHorizontal ==
  << Call(107, 87, "Left Blocker", <<H(138)>>),
     Call(108, 87, "Right Blocker", <<H(138)>>),
     Call(110, 87, "Middle Place", <<H(138)>>),
     Act(114, "div[role='list'] >> text='Middle Place'", <<H(138)>>),
     Sleep(115),
     Shot(118, "verification/top_bottom_test_1.png", <<H(138)>>) >>

TopBottomVertical ==
  << Ins(123, "goto", "page.reload()", 0, 0, <<H(138)>>),
     Wait(124, "button:has-text('Add Place')", DefaultTimeout, <<H(138)>>),
     Call(126, 87, "Top Blocker", <<H(138)>>),
     Call(127, 87, "Bottom Blocker", <<H(138)>>),
     Call(128, 87, "Middle Place", <<H(138)>>),
     Act(131, "div[role='list'] >> text='Middle Place'", <<H(138)>>),
     Sleep(132),
     Shot(135, "verification/top_bottom_test_2.png", <<H(138)>>),
     Jmp(137, 140) >>

TopBottomEnd ==
  << Report(138, <<H(140)>>),
     EndExc(139, 140),
     Close(140, NoH),
     EndFin(141, NoH) >>

ProgTopBottom ==
  TopBottomAddPlace \o TopBottomOpen \o TopBottomHorizontal \o
  TopBottomVertical \o TopBottomEnd

(***************************************************************************)
(* verify_positioning.py: no try block at all.                             *)
(***************************************************************************)
PositioningAddPlace ==
  << Act(70, "button:has-text('Add Place')", NoH),
     Act(71, "input[placeholder*='Type to search']", NoH),
     Wait(72, "li:has-text('{name}')", DefaultTimeout, NoH),
     Act(73, "li:first-child", NoH),
     Wait(74, "div:has-text('{name}')", DefaultTimeout, NoH),
     Ret(75) >>

PositioningMain ==
  << Launch(7), Setup(9, NoH), Setup(10, NoH), Listen(63, "route", NoH),
     Goto(65, NoH),
     Wait(66, "button:has-text('Add Place')", DefaultTimeout, NoH),
     Call(76, 70, "Tower of London", NoH),
     Call(77, 70, "Tower Bridge", NoH),
     Call(78, 70, "HMS Belfast", NoH),
     Act(83, "span:text-is('HMS Belfast')", NoH),
     Sleep(86),
     Shot(89, "verification/positioning_test.png", NoH),
     Close(92, NoH) >>

ProgPositioning == PositioningAddPlace \o PositioningMain

(***************************************************************************)
(* verify_track_integration.py                                             *)
(***************************************************************************)
IntegrationSettings ==
  << Launch(7), Setup(9, NoH), Setup(10, NoH),
     Goto(15, <<H(138)>>),
     Expect(18, "text=StrataLines", 30, <<H(138)>>),
     Act(24, "text=Advanced Mode", <<H(138)>>),
     Expect(27, "text=Track Integration", ExpectTimeout, <<H(138)>>),
     Expect(28, "label=Auto-create Places", ExpectTimeout, <<H(138)>>),
     Expect(29, "label=Use Locality Names", ExpectTimeout, <<H(138)>>),
     Expect(36, "label=Min Len (km)", ExpectTimeout, <<H(138)>>),
     Act(37, "label=Min Len (km)", <<H(138)>>) >>

IntegrationUpload ==
  << Fs(45, "test_track.gpx", <<H(138)>>),
     Upload(60, "test_track.gpx", <<H(138)>>),
     Expect(65, "text=Test Track", 10, <<H(138)>>) >>

IntegrationButtons ==
  << Expect(77, "title=Manage Places", ExpectTimeout, <<H(138)>>),
     Act(78, "title=Manage Places", <<H(138)>>),
     Expect(81, "title=Add Start Place", ExpectTimeout, <<H(138)>>),
     Expect(82, "title=Add Middle Place", ExpectTimeout, <<H(138)>>),
     Expect(83, "title=Add End Place", ExpectTimeout, <<H(138)>>),
     Expect(86, "title=Add All", ExpectTimeout, <<H(138)>>) >>

IntegrationReupload ==
  << Act(94, "title=Remove Track", <<H(138)>>),
     Expect(95, "not text=Test Track", ExpectTimeout, <<H(138)>>),
     Act(99, "label=Auto-create Places", <<H(138)>>),
     Upload(103, "test_track.gpx", <<H(138)>>),
     Expect(106, "text=Test Track >> first", ExpectTimeout, <<H(138)>>) >>

IntegrationAutoCreate ==
  << Sleep(109),
     Count(112, "text=Test Track >> count", <<H(138)>>),
     IfLt(116, "text=Test Track >> count", 4, 122),
     Sleep(118),
     Count(119, "text=Test Track >> count", <<H(138)>>),
     IfLt(122, "text=Test Track >> count", 2, 130),
     Throw(123, <<H(138)>>) >>

IntegrationEnd ==
  << Fs(130, "verification", <<H(138)>>),
     Shot(134, "verification/track_integration_success.png", <<H(138)>>),
     Jmp(137, 144),
     Report(138, <<H(144)>>),
     Fs(139, "verification", <<H(144)>>),
     Shot(141, "verification/error.png", <<H(144)>>),
     Raise(142, <<H(144)>>),
     Close(144, NoH),
     EndFin(145, NoH) >>

ProgIntegration ==
  IntegrationSettings \o IntegrationUpload \o IntegrationButtons \o
  IntegrationReupload \o IntegrationAutoCreate \o IntegrationEnd

(***************************************************************************)
(* verify_track_places.py                                                  *)
(***************************************************************************)
TrackPlacesUpload ==
  << Launch(7), Setup(8, NoH), Listen(11, "console", NoH),
     Listen(12, "pageerror", NoH),
     Goto(17, <<H(82)>>),
     Expect(21, "text=StrataLines", 10, <<H(82)>>),
     Upload(30, "test_track.gpx", <<H(82)>>),
     Expect(35, "text=Test Track", 10, <<HAssert(38), H(82)>>),
     Jmp(36, 41),
     Shot(38, "verification/step2_track_not_found.png", <<H(82)>>),
     Raise(39, <<H(82)>>),
     Shot(41, "verification/step2_track_found.png", <<H(82)>>) >>

TrackPlacesManage ==
  << Expect(46, "button[title='Manage Places']", ExpectTimeout, <<H(82)>>),
     Act(47, "button[title='Manage Places']", <<H(82)>>),
     Expect(50, "text=Places:", ExpectTimeout, <<H(82)>>),
     Expect(55, "button[title='Add Start Place']", ExpectTimeout, <<H(82)>>),
     Act(58, "button[title='Add Start Place']", <<H(82)>>),
     Expect(62, "button[title='Remove Start Place']", ExpectTimeout, <<H(82)>>),
     Act(67, "button[title='Add All']", <<H(82)>>),
     Expect(70, "button[title='Remove Middle Place']", ExpectTimeout, <<H(82)>>),
     Expect(71, "button[title='Remove End Place']", ExpectTimeout, <<H(82)>>),
     Expect(74, "button[title='Manage Places'] >> class", ExpectTimeout,
            <<H(82)>>) >>

TrackPlacesEnd ==
  << Fs(77, "verification", <<H(82)>>),
     Shot(78, "verification/track_places.png", <<H(82)>>),
     Jmp(81, 85),
     Report(82, <<H(85)>>),
     Raise(83, <<H(85)>>),
     Close(85, NoH),
     EndFin(86, NoH) >>

ProgTrackPlaces == TrackPlacesUpload \o TrackPlacesManage \o TrackPlacesEnd

(***************************************************************************)
(* verify_places.py                                                        *)
(***************************************************************************)
PlacesUi ==
  << Goto(5, NoH),
     Expect(9, "title=StrataLines - GPS Track Visualizer", ExpectTimeout, NoH),
     Expect(13, "text=StrataLines", ExpectTimeout, NoH),
     Expect(19, "button >> has_text=Places", ExpectTimeout, NoH),
     Expect(23, "button >> has_text=Places >> contains 0", ExpectTimeout, NoH),
     Expect(28, "role=button[name=Add Place]", ExpectTimeout, NoH),
     Listen(32, "dialog", NoH),
     Act(33, "role=button[name=Add Place]", NoH),
     Act(38, "text=Advanced Mode", NoH),
     Expect(42, "text=Place Settings", ExpectTimeout, NoH),
     Expect(43, "text=Title Size", ExpectTimeout, NoH),
     Expect(44, "text=Show Icons Globally", ExpectTimeout, NoH),
     Shot(48, "verification/places_ui.png", NoH),
     Ret(49) >>

PlacesMain ==
  << Launch(52), Setup(53, NoH),
     Call(55, 5, "", <<H(58)>>),
     Pass(56, <<H(58)>>),
     Jmp(57, 62),
     Report(58, <<H(62)>>),
     Shot(59, "verification/error.png", <<H(62)>>),
     Raise(60, <<H(62)>>),
     Close(62, NoH),
     EndFin(63, NoH) >>

ProgPlaces == PlacesUi \o PlacesMain

(***************************************************************************)
(* verify_places_ui.py                                                     *)
(***************************************************************************)
PlacesUi2 ==
  << Goto(6, NoH),
     Expect(9, "text=StrataLines", 10, NoH),
     Expect(17, "role=heading[name=Places] >> first", ExpectTimeout, NoH),
     Expect(20, "text=No places added yet.", ExpectTimeout, NoH),
     Expect(24, "role=button[name=Add Place]", ExpectTimeout, NoH),
     Listen(27, "dialog", NoH),
     Act(31, "role=button[name=Add Place]", NoH),
     Sleep(34),
     Shot(36, "verification/places_ui.png", NoH),
     Ret(37) >>

PlacesUi2Main ==
  << Launch(40), Setup(41, NoH), Setup(43, NoH),
     Call(45, 6, "", <<H(47)>>),
     Jmp(46, 51),
     Report(47, <<H(51)>>),
     Shot(48, "verification/error.png", <<H(51)>>),
     Raise(49, <<H(51)>>),
     Close(51, NoH),
     EndFin(52, NoH) >>

ProgPlacesUi == PlacesUi2 \o PlacesUi2Main

(***************************************************************************)
(* verify_track_places_ui.py: no try block around the scenario.            *)
(***************************************************************************)
TrackUiUpload ==
  << Launch(6), Setup(7, NoH), Listen(10, "console", NoH),
     Listen(11, "pageerror", NoH),
     Goto(14, NoH),
     Wait(17, "text=Add Files", DefaultTimeout, NoH),
     Upload(24, "verification/sample.gpx", NoH),
     Wait(29, "text=Test Track", 10, <<H(31)>>),
     Jmp(30, 37),
     Report(31, NoH),
     Shot(32, "verification/error.png", NoH),
     Raise(33, NoH) >>

TrackUiPlaces ==
  << Act(37, "title=Manage Places", NoH),
     Expect(40, "text=Places:", ExpectTimeout, NoH),
     Act(44, "title=Add Start Place", NoH),
     Expect(48, "title=Remove Start Place", ExpectTimeout, NoH),
     Shot(51, "verification/track_places_ui.png", NoH),
     Close(53, NoH) >>

ProgTrackUi == TrackUiUpload \o TrackUiPlaces

(***************************************************************************)
(* The scripts, their programs and entry lines.                            *)
(***************************************************************************)
Scripts ==
  { "verify_changes", "verify_place_editing", "verify_places_rendering",
    "verify_geocoding", "verify_top_bottom", "verify_positioning",
    "verify_track_integration", "verify_track_places", "verify_places",
    "verify_places_ui", "verify_track_places_ui" }

Programs(s) ==
  CASE s = "verify_changes" -> ProgChanges
    [] s = "verify_place_editing" -> ProgEditing
    [] s = "verify_places_rendering" -> ProgRendering
    [] s = "verify_geocoding" -> ProgGeocoding
    [] s = "verify_top_bottom" -> ProgTopBottom
    [] s = "verify_positioning" -> ProgPositioning
    [] s = "verify_track_integration" -> ProgIntegration
    [] s = "verify_track_places" -> ProgTrackPlaces
    [] s = "verify_places" -> ProgPlaces
    [] s = "verify_places_ui" -> ProgPlacesUi
    [] s = "verify_track_places_ui" -> ProgTrackUi

\* the line of the first statement the script executes
Entry(s) ==
  CASE s = "verify_changes" -> 132
    [] s = "verify_place_editing" -> 5
    [] s = "verify_places_rendering" -> 7
    [] s = "verify_geocoding" -> 5
    [] s = "verify_top_bottom" -> 8
    [] s = "verify_positioning" -> 7
    [] s = "verify_track_integration" -> 7
    [] s = "verify_track_places" -> 7
    [] s = "verify_places" -> 52
    [] s = "verify_places_ui" -> 40
    [] s = "verify_track_places_ui" -> 6

(***************************************************************************)
(* The geocoding mocks of verify_positioning.py and verify_top_bottom.py.  *)
(* A query is a string, here the sequence of its characters; mocks is the  *)
(* dict in definition order, each key with the fields of its entry.        *)
(***************************************************************************)
Mock(key, lat, lon, display, city) ==
  [key |-> key,
   data |-> [lat |-> lat, lon |-> lon, display_name |-> display,
             address |-> [city |-> city]]]

PositioningMocks ==
  <<
     Mock(<<"T", "o", "w", "e", "r", " ", "o", "f", " ", "L", "o", "n",
               "d", "o", "n">>,
          "51.5081", "-0.0759", "Tower of London, London, UK", "Tower of London"),
     Mock(<<"T", "o", "w", "e", "r", " ", "B", "r", "i", "d", "g", "e">>,
          "51.5055", "-0.0754", "Tower Bridge, London, UK", "Tower Bridge"),
     Mock(<<"H", "M", "S", " ", "B", "e", "l", "f", "a", "s", "t">>,
          "51.5066", "-0.0813", "HMS Belfast, London, UK", "HMS Belfast") >>

\* lat and lon are str() of floats computed from base_lat and base_lon
TopBottomMocks ==
  <<
     Mock(<<"M", "i", "d", "d", "l", "e", " ", "P", "l", "a", "c", "e">>,
          "str(base_lat)", "str(base_lon)", "Middle Place, London", "Middle Place"),
     Mock(<<"L", "e", "f", "t", " ", "B", "l", "o", "c", "k", "e", "r">>,
          "str(base_lat)", "str(base_lon - 0.0015)", "Left Blocker", "Left Blocker"),
     Mock(<<"R", "i", "g", "h", "t", " ", "B", "l", "o", "c", "k", "e",
               "r">>,
          "str(base_lat)", "str(base_lon + 0.0015)", "Right Blocker", "Right Blocker"),
     Mock(<<"T", "o", "p", " ", "B", "l", "o", "c", "k", "e", "r">>,
          "str(base_lat + 0.001)", "str(base_lon)", "Top Blocker", "Top Blocker"),
     Mock(<<"B", "o", "t", "t", "o", "m", " ", "B", "l", "o", "c", "k",
               "e", "r">>,
          "str(base_lat - 0.001)", "str(base_lon)", "Bottom Blocker", "Bottom Blocker") >>

RouteScripts == {"verify_positioning", "verify_top_bottom"}

Mocks(s) == IF s = "verify_positioning" THEN PositioningMocks ELSE TopBottomMocks

BoundingBox(s) ==
  IF s = "verify_positioning" THEN <<"51.5", "51.6", "-0.1", "0.0">>
  ELSE <<"51.4", "51.6", "-0.1", "0.0">>

\* key in q
Contains(q, key) ==
  \E i \in 0..(Len(q) - Len(key)) : SubSeq(q, i + 1, i + Len(key)) = key

\* Lookup without the break: the last key found in q gives the entry
RECURSIVE LookupNoBreak(_, _, _)
LookupNoBreak(s, ms, q) ==
  IF ms = <<>> THEN <<>>
  ELSE LET rest == LookupNoBreak(s, Tail(ms), q) IN
       IF rest # <<>> THEN rest
       ELSE IF Contains(q, Head(ms).key)
         THEN << [lat |-> Head(ms).data.lat, lon |-> Head(ms).data.lon,
                  display_name |-> Head(ms).data.display_name,
                  address |-> Head(ms).data.address,
                  boundingbox |-> BoundingBox(s)] >>
       ELSE <<>>

\* for key, data in mocks.items(): if key in q: result = [...]; break
RECURSIVE Lookup(_, _, _)
Lookup(s, ms, q) ==
  IF ms = <<>> THEN <<>>
  ELSE IF Contains(q, Head(ms).key)
    THEN << [lat |-> Head(ms).data.lat, lon |-> Head(ms).data.lon,
             display_name |-> Head(ms).data.display_name,
             address |-> Head(ms).data.address,
             boundingbox |-> BoundingBox(s)] >>
  ELSE Lookup(s, Tail(ms), q)

\* handle_route(route): a search request is fulfilled, any other goes on
\* RouteCalls with route.continue_() after the if instead of in its else
RouteCallsNoElse(s, req) ==
  (IF req.search
     THEN << [kind |-> "fulfill", status |-> 200,
              content_type |-> "application/json",
              body |-> Lookup(s, Mocks(s), req.q)] >>
     ELSE <<>>)
  \o << [kind |-> "continue"] >>

\* the calls handle_route makes on the route, in order
RouteCalls(s, req) ==
  IF req.search
    THEN << [kind |-> "fulfill", status |-> 200,
             content_type |-> "application/json",
             body |-> Lookup(s, Mocks(s), req.q)] >>
  ELSE << [kind |-> "continue"] >>

\* what the request is resolved with: the first call on its route
HandleRoute(s, req) == Head(RouteCalls(s, req))

Prog == Programs(script)
ExitPc == Len(Prog) + 1
PcIn(P, l) == CHOOSE i \in 1..Len(P) : P[i].line = l
PcOf(l) == PcIn(Prog, l)
Cur == Prog[pc]
Running == exit = NoExit /\ pc \in 1..Len(Prog)
At(op) == Running /\ Cur.op = op


(***************************************************************************)
(* Python's exception propagation: the innermost enclosing handler that    *)
(* catches the kind, else the handlers around the call site, else the      *)
(* exception leaves the script (the interpreter prints the traceback and   *)
(* the process exits with status 1).                                       *)
(***************************************************************************)
RECURSIVE Catch(_, _)
Catch(hs, kind) ==
  IF hs = <<>> THEN 0
  ELSE IF kind \in Head(hs).kinds THEN Head(hs).at
  ELSE Catch(Tail(hs), kind)

RECURSIVE Unwind(_, _, _, _, _)
Unwind(P, hs, stk, nm, kind) ==
  LET at == Catch(hs, kind) IN
  IF at # 0 THEN [pc |-> PcIn(P, at), stack |-> stk, name |-> nm]
  ELSE IF stk = <<>> THEN [pc |-> Len(P) + 1, stack |-> <<>>, name |-> nm]
  ELSE Unwind(P, P[Head(stk).site].h, Tail(stk), Head(stk).name, kind)

Normal(next) == pc' = next /\ UNCHANGED <<stack, name, exc, saved>>

\* the exception of the given kind leaves the current statement of P
PropagateIn(P, kind, line) ==
  LET u == Unwind(P, P[pc].h, stack, name, kind) IN
  /\ pc' = u.pc /\ stack' = u.stack /\ name' = u.name
  /\ exc' = [kind |-> kind, line |-> IF line = 0 THEN P[pc].line ELSE line]

Propagate(e) == PropagateIn(Prog, e.kind, e.line)

\* raise / the end of a finally block: the pending exception goes on
Reraise == Propagate(exc) /\ UNCHANGED saved

\* a statement raises; an exception being handled is kept aside
Throwing(kind) ==
  /\ PropagateIn(Prog, kind, 0)
  /\ saved' = IF exc # NoExc THEN exc ELSE saved

\* the page is the environment: whether the condition of the wait the
\* script has arrived at, or is polling, holds at the next poll is its choice
PollIn(P) ==
  cond' \in IF pc' \in 1..Len(P) /\ P[pc'].op \in {"wait", "expect"}
             THEN BOOLEAN ELSE {FALSE}

PagePoll == PollIn(Prog)

NoWait == elapsed' = 0 /\ waitRes' = "none" /\ waitLine' = 0

(***************************************************************************)
(* The history the properties read: what has been executed so far.         *)
(***************************************************************************)
StepOps == {"goto", "wait", "expect", "act", "upload"}
PageOps == StepOps \cup {"shot", "query", "count", "br"}
Sel == <<Cur.arg, name>>

NoEl == [tag |-> "none", in |-> "none", named |-> FALSE, first |-> FALSE]

InitHist ==
  [ firstStep |-> "none",        \* op of the first page step or capture
    failedAt |-> 0,              \* line of the first step that failed
    afterFail |-> FALSE,         \* a step ran after a step had failed
    shotAfterFail |-> FALSE,     \* a screenshot was taken after a failure
    closedNoShot |-> FALSE,      \* close ran after a failure with no such shot
    afterClose |-> FALSE,        \* a page call ran after browser.close()
    shotTried |-> FALSE,         \* a screenshot has been attempted
    stepAfterShot |-> FALSE,     \* a step ran after a screenshot
    failedConds |-> {},          \* selectors whose step failed or came short
    retried |-> FALSE,           \* a failed selector was tried again
    lastGate |-> "none",         \* "wait" | "sleep": what preceded the call
    ungated |-> FALSE,           \* an action or capture followed a sleep
    handlerShotRaised |-> FALSE, \* a screenshot in a handler raised
    failedKind |-> "none",       \* exception kind of the first failed step
    waitFailed |-> FALSE,        \* a wait or expect has timed out
    lastWait |-> "",             \* selector the step just before waited for
    gatedFail |-> FALSE,         \* an action on that very selector failed
    skipped |-> FALSE,           \* a branch went round the action it guards
    lateListener |-> FALSE,      \* a listener was attached after page.goto
    overwrote |-> FALSE,         \* a screenshot replaced a file on disk
    wrote |-> {},                \* paths this run has created or written
    read |-> {},                 \* paths this run has read
    used |-> FALSE,              \* a page call or close has been attempted
    attached |-> {},             \* events that have a callback registered
    cbOps |-> {},                \* calls made by callbacks during page calls
    routeCalls |-> <<>>,         \* calls made on the route of the last request
    dom |-> <<>>,                \* the page's elements, in document order
    target |-> NoEl              \* the element the last click landed on
  ]

\* the history after the statement c, with selector s, has run
SeenAt(c, s, ok) ==
  LET op == c.op IN
  [ hist EXCEPT
      !.firstStep = IF @ = "none" /\ op \in StepOps \cup {"shot"} THEN op ELSE @,
      !.failedAt = IF ~ok /\ @ = 0 THEN c.line ELSE @,
      !.afterFail = @ \/ (op \in StepOps /\ hist.failedAt # 0),
      !.shotAfterFail = @ \/ (op = "shot" /\ hist.failedAt # 0),
      !.closedNoShot =
         @ \/ (op = "close" /\ hist.failedAt # 0 /\ ~hist.shotAfterFail),
      !.afterClose = @ \/ (op \in PageOps /\ closeCount > 0),
      !.shotTried = @ \/ op = "shot",
      !.stepAfterShot = @ \/ (op \in StepOps /\ hist.shotTried),
      !.failedConds = IF ~ok /\ op \in PageOps THEN @ \cup {s} ELSE @,
      !.retried = @ \/ (op \in PageOps /\ s \in hist.failedConds),
      !.lastGate = CASE op \in {"wait", "expect"} /\ ok -> "wait"
                     [] op = "sleep" -> "sleep"
                     [] op \in {"goto", "act", "shot"} -> "none"
                     [] OTHER -> @,
      !.ungated = @ \/ (op \in {"act", "shot"} /\ hist.lastGate = "sleep"),
      !.handlerShotRaised = @ \/ (op = "shot" /\ ~ok /\ exc # NoExc),
      !.failedKind = IF ~ok /\ hist.failedAt = 0 THEN exc'.kind ELSE @,
      !.waitFailed = @ \/ (op \in {"wait", "expect"} /\ ~ok),
      !.lastWait = IF op \in {"wait", "expect"} /\ ok THEN c.arg ELSE "",
      !.gatedFail = @ \/ (op = "act" /\ ~ok /\ c.arg = hist.lastWait),
      !.overwrote = @ \/ (op = "shot" /\ ok /\ s \in fs),
      !.wrote = IF ok /\ (op = "shot" \/ (op = "fs" /\ s \notin fs))
                  THEN @ \cup {c.arg} ELSE @,
      !.read = IF op = "upload" /\ s \in fs THEN @ \cup {c.arg} ELSE @,
      !.used = @ \/ op \in PageOps \cup {"close"}
  ]

SeenIn(P, ok) == SeenAt(P[pc], <<P[pc].arg, name>>, ok)

Seen(ok) == SeenIn(Prog, ok)

\* what no statement of a script changes
Fixed == <<script, run, first, oracle, request, response>>

Frame == <<Fixed, launched, closeCount, shots, exit, reports, count, fs>>

(***************************************************************************)
(* The interpreter: one action per kind of statement.                      *)
(***************************************************************************)
\* browser = p.chromium.launch(): a browser, or the launch error
DoLaunch ==
  /\ At("launch") /\ NoWait
  /\ \/ Normal(pc + 1) /\ launched' = TRUE
     \/ Throwing("Error") /\ UNCHANGED launched
  /\ UNCHANGED <<Fixed, closeCount, shots, exit, reports, count, fs, hist>>
  /\ PagePoll

\* new_context / new_page / page.on / page.route / set_viewport_size
DoSetup ==
  /\ At("setup") /\ NoWait /\ Normal(pc + 1)
  /\ hist' = [hist EXCEPT
                !.lateListener = @ \/ (Cur.arg # "" /\ hist.firstStep # "none"),
                !.attached = IF Cur.arg # "" THEN @ \cup {Cur.arg} ELSE @]
  /\ UNCHANGED Frame
  /\ PagePoll

\* page.goto(url)
DoGoto ==
  /\ At("goto") /\ NoWait
  /\ \/ Normal(pc + 1) /\ hist' = Seen(TRUE)
     \/ Throwing("Error") /\ hist' = Seen(FALSE)
  /\ UNCHANGED Frame
  /\ PagePoll

\* click / dblclick / fill / press / check / set_input_files / mouse.*
DoAct ==
  /\ At("act") /\ NoWait
  /\ \/ Normal(pc + 1) /\ hist' = Seen(TRUE)
     \/ Throwing("Error") /\ hist' = Seen(FALSE)
  /\ UNCHANGED Frame
  /\ PagePoll

\* page.evaluate / text_content / content: a value read from the page
DoQuery ==
  /\ At("query") /\ NoWait
  /\ \/ Normal(pc + 1) /\ hist' = Seen(TRUE)
     \/ Throwing("Error") /\ hist' = Seen(FALSE)
  /\ UNCHANGED Frame
  /\ PagePoll

\* count = page.get_by_text(...).count()
DoCount ==
  /\ At("count") /\ NoWait /\ Normal(pc + 1)
  /\ \E n \in 0..MaxCount : count' = n
  /\ hist' = Seen(TRUE)
  /\ UNCHANGED <<Fixed, launched, closeCount, shots, exit, reports, fs>>
  /\ PagePoll

\* DoUpload with an upload that moves the file away from the disk
DoUploadMovesFile ==
  /\ At("upload") /\ NoWait
  /\ \/ Sel \in fs /\ Normal(pc + 1) /\ hist' = Seen(TRUE) /\ fs' = fs \ {Sel}
     \/ Throwing("Error") /\ hist' = Seen(FALSE) /\ UNCHANGED fs
  /\ UNCHANGED <<Fixed, launched, closeCount, shots, exit, reports, count>>
  /\ PagePoll

\* set_input_files(path): the file must exist, and the page must take it
DoUpload ==
  /\ At("upload") /\ NoWait
  /\ \/ Sel \in fs /\ Normal(pc + 1) /\ hist' = Seen(TRUE)
     \/ Throwing("Error") /\ hist' = Seen(FALSE)
  /\ UNCHANGED Frame
  /\ PagePoll

\* the branch to next leaves out a click or fill on the element it tested:
\* the statements jumped over, or the else part when the body is entered
ActIn(from, to) ==
  \E i \in from..to : Prog[i].op = "act" /\ Prog[i].arg = Cur.arg

Skips(next) ==
  LET else == PcOf(Cur.tgt) IN
  IF next = else THEN ActIn(pc + 1, else - 1)
  ELSE /\ Prog[else - 1].op = "jmp"
       /\ ActIn(else, PcOf(Prog[else - 1].tgt) - 1)

\* if <locator>.count() > 0 / is_visible() / is_disabled(): either branch
DoBranch ==
  /\ At("br") /\ NoWait
  /\ \/ Normal(pc + 1)
     \/ Normal(PcOf(Cur.tgt))
  /\ hist' = [Seen(TRUE) EXCEPT !.skipped = @ \/ Skips(pc')]
  /\ UNCHANGED Frame
  /\ PagePoll

\* if count < k: the body when short, else past it
DoIfLt ==
  /\ At("iflt") /\ NoWait
  /\ IF count < Cur.T
       THEN /\ Normal(pc + 1)
            /\ hist' = [hist EXCEPT !.failedConds = @ \cup {Sel}]
       ELSE /\ Normal(PcOf(Cur.tgt))
            /\ UNCHANGED hist
  /\ UNCHANGED Frame
  /\ PagePoll

\* time.sleep(s) / page.wait_for_timeout(ms)
DoSleep ==
  /\ At("sleep") /\ NoWait /\ Normal(pc + 1)
  /\ hist' = Seen(TRUE)
  /\ UNCHANGED Frame
  /\ PagePoll

\* page.screenshot(path=...)
DoShot ==
  /\ At("shot") /\ NoWait
  /\ \/ /\ Normal(pc + 1) /\ hist' = Seen(TRUE)
        /\ shots' = shots \cup {Sel} /\ fs' = fs \cup {Sel}
     \/ Throwing("Error") /\ UNCHANGED <<shots, fs>> /\ hist' = Seen(FALSE)
  /\ UNCHANGED <<Fixed, launched, closeCount, exit, reports, count>>
  /\ PagePoll

\* os.makedirs(dir, exist_ok=True) / if not os.path.exists(p): create p
DoFs ==
  /\ At("fs") /\ NoWait /\ Normal(pc + 1)
  /\ fs' = fs \cup {Sel}
  /\ hist' = Seen(TRUE)
  /\ UNCHANGED <<Fixed, launched, closeCount, shots, exit, reports, count>>
  /\ PagePoll

\* browser.close()
DoClose ==
  /\ At("close") /\ NoWait /\ Normal(pc + 1)
  /\ closeCount' = closeCount + 1
  /\ hist' = Seen(TRUE)
  /\ UNCHANGED <<Fixed, launched, shots, exit, reports, count, fs>>
  /\ PagePoll

(***************************************************************************)
(* wait_for_selector, locator.wait_for and expect(...) poll their          *)
(* condition until it holds or the timeout has elapsed.                    *)
(***************************************************************************)
AtWait == Running /\ Cur.op \in {"wait", "expect"}
Polled == IF waitRes = "none" /\ waitLine = Cur.line THEN elapsed ELSE 0
Limit == Cur.T * PollsPerSecond

\* the poll finds the condition true: the wait returns
WaitOk ==
  /\ AtWait /\ cond /\ Polled < Limit
  /\ Normal(pc + 1)
  /\ elapsed' = Polled /\ waitRes' = "ok" /\ waitLine' = Cur.line
  /\ hist' = Seen(TRUE)
  /\ UNCHANGED Frame
  /\ PagePoll

\* the poll finds it false and the timeout has not elapsed: poll again
WaitTick ==
  /\ AtWait /\ ~cond /\ Polled + 1 < Limit
  /\ elapsed' = Polled + 1 /\ waitRes' = "none" /\ waitLine' = Cur.line
  /\ UNCHANGED <<pc, stack, name, exc, saved, Frame, hist>>
  /\ PagePoll

\* the poll finds it false and the timeout elapses: TimeoutError, or
\* AssertionError from expect
WaitTimeout ==
  /\ AtWait /\ ~cond /\ Polled + 1 = Limit
  /\ elapsed' = Limit /\ waitRes' = "timeout" /\ waitLine' = Cur.line
  /\ Throwing(IF Cur.op = "wait" THEN "Timeout" ELSE "Assertion")
  /\ hist' = Seen(FALSE)
  /\ UNCHANGED Frame
  /\ PagePoll

(***************************************************************************)
(* Control flow.                                                           *)
(***************************************************************************)
DoJmp ==
  /\ At("jmp") /\ NoWait /\ Normal(PcOf(Cur.tgt))
  /\ UNCHANGED <<Frame, hist>>
  /\ PagePoll

DoCall ==
  /\ At("call") /\ NoWait
  /\ pc' = PcOf(Cur.tgt)
  /\ stack' = <<[site |-> pc, name |-> name]>> \o stack
  /\ name' = Cur.arg
  /\ UNCHANGED <<exc, saved, Frame, hist>>
  /\ PagePoll

DoRet ==
  /\ At("ret") /\ NoWait
  /\ pc' = Head(stack).site + 1
  /\ name' = Head(stack).name
  /\ stack' = Tail(stack)
  /\ UNCHANGED <<exc, saved, Frame, hist>>
  /\ PagePoll

\* print(f"Error: {e}") in the handler at the scenario boundary
DoReport ==
  /\ At("report") /\ NoWait /\ Normal(pc + 1)
  /\ reports' = reports \cup {"fail"}
  /\ UNCHANGED <<Fixed, launched, closeCount, shots, exit, count, fs, hist>>
  /\ PagePoll

\* print("Verification successful!")
DoPass ==
  /\ At("pass") /\ NoWait /\ Normal(pc + 1)
  /\ reports' = reports \cup {"pass"}
  /\ UNCHANGED <<Fixed, launched, closeCount, shots, exit, count, fs, hist>>
  /\ PagePoll

\* raise / raise e in an except clause
DoRaise ==
  /\ At("raise") /\ NoWait
  /\ Reraise
  /\ UNCHANGED <<Frame, hist>>
  /\ PagePoll

\* raise Exception("...")
DoThrow ==
  /\ At("throw") /\ NoWait
  /\ Throwing("Error")
  /\ hist' = Seen(FALSE)
  /\ UNCHANGED Frame
  /\ PagePoll

\* the end of an except clause that does not raise
DoEndExc ==
  /\ At("endexc") /\ NoWait
  /\ pc' = PcOf(Cur.tgt) /\ exc' = NoExc /\ saved' = NoExc
  /\ UNCHANGED <<stack, name, Frame, hist>>
  /\ PagePoll

\* the end of an except clause nested in an except clause: the outer
\* clause's exception is the one being handled again
DoEndInner ==
  /\ At("endinner") /\ NoWait
  /\ pc' = PcOf(Cur.tgt) /\ exc' = saved /\ saved' = NoExc
  /\ UNCHANGED <<stack, name, Frame, hist>>
  /\ PagePoll

\* the end of a finally block
DoEndFin ==
  /\ At("endfin") /\ NoWait
  /\ IF exc = NoExc THEN Normal(pc + 1) ELSE Reraise
  /\ UNCHANGED <<Frame, hist>>
  /\ PagePoll

\* the script ends: status 0, or the traceback and status 1
Exit ==
  /\ exit = NoExit /\ pc = ExitPc
  /\ exit' = IF exc = NoExc THEN 0 ELSE 1
  /\ reports' = reports \cup {IF exc = NoExc THEN "pass" ELSE "fail"}
  /\ UNCHANGED <<Fixed, pc, stack, name, exc, saved, launched, closeCount,
                 shots, elapsed, waitRes, waitLine, count, fs, hist>>
  /\ PagePoll

\* the files a script uploads: each may or may not be on disk beforehand
Fixtures(s) ==
  { <<Programs(s)[i].arg, "">> :
      i \in { j \in 1..Len(Programs(s)) : Programs(s)[j].op = "upload" } }

NoFirst == [exit |-> NoExit, reports |-> {}, kind |-> "none", failedAt |-> 0,
            wrote |-> {}]
NoOracle == [fail |-> {}, br |-> FALSE, count |-> 0]
NoRequest == [search |-> FALSE, q |-> <<>>]
NoResponse == [kind |-> "none"]

Init ==
  /\ script \in Scripts
  /\ pc = PcOf(Entry(script))
  /\ stack = <<>> /\ name = "" /\ exc = NoExc /\ saved = NoExc
  /\ launched = FALSE /\ closeCount = 0 /\ shots = {}
  /\ exit = NoExit /\ reports = {}
  /\ elapsed = 0 /\ waitRes = "none" /\ waitLine = 0 /\ cond = FALSE
  /\ count = 0
  /\ fs \in SUBSET Fixtures(script)
  /\ run = 1 /\ first = NoFirst /\ oracle = NoOracle
  /\ request = NoRequest /\ response = NoResponse
  /\ hist = InitHist

\* a callback that takes a screenshot of the page
CallbackOpShot(s, ev, search) == "shot"

\* the call the callback registered for ev makes: the lambdas print or
\* accept the dialog, handle_route fulfils or continues the route
CallbackOp(s, ev, search) ==
  CASE ev \in {"console", "pageerror"} -> "print"
    [] ev = "dialog" -> "dialog.accept"
    [] ev = "route" ->
         IF HandleRoute(s, [search |-> search, q |-> <<>>]).kind = "fulfill"
           THEN "route.fulfill" ELSE "route.continue_"

\* the page raises an event while the script is inside a page call: the
\* callback registered for it runs before that call returns
DoCallback ==
  /\ Running /\ Cur.op \in PageOps
  /\ launched /\ closeCount = 0
  /\ \E ev \in hist.attached, search \in BOOLEAN :
       hist' = [hist EXCEPT !.cbOps = @ \cup {CallbackOp(script, ev, search)}]
  /\ UNCHANGED <<pc, stack, name, exc, saved, elapsed, waitRes, waitLine,
                 cond, Frame>>

Next ==
  \/ DoCallback
  \/ DoLaunch \/ DoSetup \/ DoGoto \/ DoAct \/ DoUpload \/ DoQuery \/ DoCount
  \/ DoBranch \/ DoIfLt \/ DoSleep \/ DoShot \/ DoFs \/ DoClose
  \/ WaitOk \/ WaitTick \/ WaitTimeout
  \/ DoJmp \/ DoCall \/ DoRet \/ DoReport \/ DoPass
  \/ DoRaise \/ DoThrow \/ DoEndExc \/ DoEndInner \/ DoEndFin \/ Exit

Spec == Init /\ [][Next]_vars

(***************************************************************************)
(* The same script run twice, one run after the other, against a page that *)
(* behaves the same both times: the calls on the lines in oracle.fail fail *)
(* and all others succeed, a waited condition holds at the first poll or   *)
(* never, every tested condition has the value oracle.br and every count   *)
(* is oracle.count.  Only the disk is carried from the first run to the    *)
(* second.  Callbacks are left out: they write nothing a run reads.        *)
(***************************************************************************)
FailOps == {"launch", "goto", "act", "upload", "query", "shot", "wait", "expect"}

OpLines(s, ops) ==
  { Programs(s)[i].line :
      i \in { j \in 1..Len(Programs(s)) : Programs(s)[j].op \in ops } }

RECURSIVE FailSets(_, _)
FailSets(L, k) ==
  IF k = 0 THEN {{}}
  ELSE FailSets(L, k - 1) \cup { F \cup {l} : F \in FailSets(L, k - 1), l \in L }

Oracles(s) ==
  [ fail : FailSets(OpLines(s, FailOps), MaxFail),
    br : IF OpLines(s, {"br"}) = {} THEN {FALSE} ELSE BOOLEAN,
    count : IF OpLines(s, {"count"}) = {} THEN {0} ELSE 0..MaxCount ]

\* the step taken from the statement c of P is the one the oracle allows
ObeysAt(P, c) ==
  /\ c.op \in FailOps \ {"upload", "wait", "expect"} =>
        (exc' # exc <=> c.line \in oracle.fail)
  /\ c.op = "upload" =>
        (exc' # exc <=> (c.line \in oracle.fail \/ <<c.arg, name>> \notin fs))
  /\ c.op \in {"wait", "expect"} =>
        IF c.line \in oracle.fail THEN waitRes' # "ok" ELSE waitRes' = "ok"
  /\ (c.op = "br" /\ PcIn(P, c.tgt) # pc + 1) => (pc' = pc + 1 <=> oracle.br)
  /\ c.op = "count" => count' = oracle.count
  /\ (pc' \in 1..Len(P) /\ P[pc'].op \in {"wait", "expect"}) =>
        (cond' <=> P[pc'].line \notin oracle.fail)

ObeysIn(P) == (exit = NoExit /\ pc \in 1..Len(P)) => ObeysAt(P, P[pc])

Obeys == ObeysIn(Prog)

\* the script is started again: a new process, the same disk
Rerun ==
  /\ exit # NoExit /\ run = 1
  /\ run' = 2
  /\ first' = [exit |-> exit, reports |-> reports, kind |-> hist.failedKind,
               failedAt |-> hist.failedAt, wrote |-> hist.wrote]
  /\ pc' = PcOf(Entry(script))
  /\ stack' = <<>> /\ name' = "" /\ exc' = NoExc /\ saved' = NoExc
  /\ launched' = FALSE /\ closeCount' = 0 /\ shots' = {}
  /\ exit' = NoExit /\ reports' = {}
  /\ elapsed' = 0 /\ waitRes' = "none" /\ waitLine' = 0 /\ cond' = FALSE
  /\ count' = 0
  /\ hist' = InitHist
  /\ UNCHANGED <<script, fs, oracle, request, response>>

RerunInit ==
  /\ script \in Scripts
  /\ pc = PcOf(Entry(script))
  /\ stack = <<>> /\ name = "" /\ exc = NoExc /\ saved = NoExc
  /\ launched = FALSE /\ closeCount = 0 /\ shots = {}
  /\ exit = NoExit /\ reports = {}
  /\ elapsed = 0 /\ waitRes = "none" /\ waitLine = 0 /\ cond = FALSE
  /\ count = 0
  /\ fs \in SUBSET Fixtures(script)
  /\ run = 1 /\ first = NoFirst /\ oracle \in Oracles(script)
  /\ request = NoRequest /\ response = NoResponse
  /\ hist = InitHist

RerunNext ==
  \/ (DoLaunch /\ Obeys) \/ (DoSetup /\ Obeys) \/ (DoGoto /\ Obeys)
  \/ (DoAct /\ Obeys) \/ (DoUpload /\ Obeys) \/ (DoQuery /\ Obeys)
  \/ (DoCount /\ Obeys) \/ (DoBranch /\ Obeys) \/ (DoIfLt /\ Obeys)
  \/ (DoSleep /\ Obeys) \/ (DoShot /\ Obeys) \/ (DoFs /\ Obeys)
  \/ (DoClose /\ Obeys)
  \/ (WaitOk /\ Obeys) \/ (WaitTick /\ Obeys) \/ (WaitTimeout /\ Obeys)
  \/ (DoJmp /\ Obeys) \/ (DoCall /\ Obeys) \/ (DoRet /\ Obeys)
  \/ (DoReport /\ Obeys) \/ (DoPass /\ Obeys)
  \/ (DoRaise /\ Obeys) \/ (DoThrow /\ Obeys) \/ (DoEndExc /\ Obeys)
  \/ (DoEndInner /\ Obeys) \/ (DoEndFin /\ Obeys) \/ (Exit /\ Obeys)
  \/ Rerun

RerunSpec == RerunInit /\ [][RerunNext]_vars

(***************************************************************************)
(* The route handler on its own: once page.route("**/*", handle_route) has *)
(* been called, the browser hands every request of the page to the         *)
(* handler.  The queries are the mock keys, pairs of them joined by a      *)
(* space, and these with up to MaxTrim characters missing at either end.   *)
(***************************************************************************)
MockKeys(s) == { Mocks(s)[i].key : i \in 1..Len(Mocks(s)) }

Trims(x) ==
  { SubSeq(x, 1 + i, Len(x) - j) : i \in 0..MaxTrim, j \in 0..MaxTrim }

Queries(s) ==
  UNION { Trims(b) : b \in {<<>>} \cup MockKeys(s) \cup
                          { x \o <<" ">> \o y : x \in MockKeys(s),
                                                 y \in MockKeys(s) } }

Requests(s) == [search : BOOLEAN, q : Queries(s)]

\* the page issues a request: a geocoding search for q, or any other
RouteRequest ==
  /\ response # NoResponse
  /\ request' \in Requests(script)
  /\ response' = NoResponse
  /\ hist' = [hist EXCEPT !.routeCalls = <<>>]
  /\ UNCHANGED <<script, pc, stack, name, exc, saved, launched, closeCount,
                 shots, exit, reports, elapsed, waitRes, waitLine, cond,
                 count, fs, run, first, oracle>>

\* handle_route(route) runs on it
RouteHandle ==
  /\ response = NoResponse
  /\ response' = HandleRoute(script, request)
  /\ hist' = [hist EXCEPT !.routeCalls =
                 [i \in 1..Len(RouteCalls(script, request)) |->
                    RouteCalls(script, request)[i].kind]]
  /\ UNCHANGED <<script, pc, stack, name, exc, saved, launched, closeCount,
                 shots, exit, reports, elapsed, waitRes, waitLine, cond,
                 count, fs, run, first, oracle, request>>

\* the state after page.route(...) has returned
RouteInit ==
  /\ script \in RouteScripts
  /\ pc = 1 + (CHOOSE i \in 1..Len(Prog) : Prog[i].arg = "route")
  /\ stack = <<>> /\ name = "" /\ exc = NoExc /\ saved = NoExc
  /\ launched = TRUE /\ closeCount = 0 /\ shots = {}
  /\ exit = NoExit /\ reports = {}
  /\ elapsed = 0 /\ waitRes = "none" /\ waitLine = 0 /\ cond = FALSE
  /\ count = 0 /\ fs = {}
  /\ run = 1 /\ first = NoFirst /\ oracle = NoOracle
  /\ request \in Requests(script) /\ response = NoResponse
  /\ hist = InitHist

RouteNext == RouteRequest \/ RouteHandle

RouteSpec == RouteInit /\ [][RouteNext]_vars


(***************************************************************************)
(* Properties.                                                             *)
(***************************************************************************)
Done == exit # NoExit

\* C1: once the browser has been launched, a run that has ended has called
\* browser.close() exactly once, whatever step failed.
C1_CloseExactlyOnce == (Done /\ launched) => closeCount = 1

\* C2: after the first failed step no further navigate/wait/act/assert step
\* is executed, and browser.close() runs only after a screenshot has been
\* taken for the failure.
C2_FailureAborts == ~hist.afterFail /\ ~hist.closedNoShot

\* C3: a run that has ended after a page step failed has written at least
\* one screenshot.
C3_FailingRunHasArtifact == (Done /\ hist.failedAt # 0) => shots # {}

\* C4: a run that has ended has reported exactly one outcome: pass or fail,
\* never both and never neither.
C4_ExactlyOneOutcome == Done => (reports = {"pass"} \/ reports = {"fail"})

\* C5: the exit status is zero exactly when the browser was launched and no
\* step failed, and non-zero otherwise.
C5_ExitStatus == Done => (exit = 0 <=> (launched /\ hist.failedAt = 0))

\* C6 (as stated): navigation is the first page step, no navigate/wait/act/
\* assert step follows a capture, and nothing runs on the page after close.
C6_CapturesLast ==
  /\ hist.firstStep \in {"none", "goto"}
  /\ ~hist.stepAfterShot
  /\ ~hist.afterClose

\* C6 (amended): navigation is the first page step; captures may come
\* between the other steps but never after browser.close(); browser.close()
\* is called at most once and no page step or capture follows it.
C6_NavFirstClosedTerminal ==
  /\ hist.firstStep \in {"none", "goto"}
  /\ ~hist.afterClose
  /\ closeCount <= 1
  /\ (closeCount = 1 /\ Running) => Cur.op \notin PageOps \cup {"sleep"}

\* a run that took a screenshot, went on with further steps, closed the
\* browser and ended with status 0
C6_Witness == exit = 0 /\ closeCount = 1 /\ hist.stepAfterShot

\* C7: a wait with timeout T that succeeds returns before T has elapsed; a
\* wait whose condition held at no poll fails when T has elapsed and never
\* earlier.  The waits of verify_changes (lines 14, 27, 33, 43) and of
\* verify_geocoding (line 36) are held to the timeouts their calls pass.
GivenTimeout ==
  CASE script = "verify_changes" /\ waitLine \in {14, 33} -> 10
    [] script = "verify_changes" /\ waitLine \in {27, 43} -> 5
    [] script = "verify_geocoding" /\ waitLine = 36 -> 15
    [] OTHER -> Prog[PcOf(waitLine)].T

C7_Deadline ==
  waitLine # 0 =>
    /\ Prog[PcOf(waitLine)].T = GivenTimeout
    /\ waitRes = "timeout" => /\ elapsed = GivenTimeout * PollsPerSecond
                              /\ exc.line = waitLine
                              /\ exc.kind \in {"Timeout", "Assertion"}
    /\ waitRes = "ok" => elapsed < GivenTimeout * PollsPerSecond
    /\ waitRes = "none" => elapsed < GivenTimeout * PollsPerSecond

\* a poll that finds the condition true returns at once; one that finds it
\* false goes on polling or, with the timeout elapsed, fails (a step of
\* the script, that is: a callback run during the wait is no poll)
C7_Poll ==
  (AtWait /\ hist'.cbOps = hist.cbOps) =>
    IF cond THEN waitRes' = "ok" /\ pc' = pc + 1 /\ exc' = exc
    ELSE /\ waitRes' \in {"none", "timeout"}
         /\ waitRes' = "timeout" <=> elapsed' = Limit
         /\ waitRes' = "none" => pc' = pc /\ elapsed' = Polled + 1

C7_WaitDeadline == []C7_Deadline /\ [][C7_Poll]_vars

\* the result wait of verify_changes has timed out after its 10 s
C7_Witness ==
  /\ script = "verify_changes" /\ waitLine = 33
  /\ waitRes = "timeout" /\ elapsed = 10 * PollsPerSecond
  /\ exc = [kind |-> "Timeout", line |-> 33]

\* C8: no selector whose step failed or came up short is tried again.
C8_NoRetry == ~hist.retried

\* C9: no action or capture is dispatched on the strength of a fixed-duration
\* sleep: each follows a polling wait, not a sleep.
C9_NoSleepGate == ~hist.ungated

\* C10: a screenshot taken while a failure is being handled never raises,
\* so a run that ends with an exception after such a screenshot ends with
\* the exception of the step that failed first.
C10_CaptureNeverFails ==
  /\ ~hist.handlerShotRaised
  /\ (exit = 1 /\ hist.shotAfterFail) => exc.line = hist.failedAt

\* C11: a run in which a page step failed still ends without an exception
\* leaving the script: the failure was caught, a screenshot was taken for
\* it and the browser was closed.
C11_FatalCaughtAtBoundary ==
  (Done /\ hist.failedAt # 0) =>
     (exc = NoExc /\ hist.shotAfterFail /\ closeCount = 1)

\* C12: the response to an intercepted search request for q is a status-200
\* JSON list fixed by q alone: the entry of the first mock key, in definition
\* order, that occurs in q, and no other; the empty list when none occurs.
Occurs(key, q) ==
  key \in { SubSeq(q, i, j) : i \in 1..(Len(q) + 1), j \in 0..Len(q) }

Hits(s, q) == { i \in 1..Len(Mocks(s)) : Occurs(Mocks(s)[i].key, q) }

FirstHit(s, q) == CHOOSE i \in Hits(s, q) : \A j \in Hits(s, q) : i <= j

C12_MockResponse ==
  (response # NoResponse /\ request.search) =>
    /\ response.kind = "fulfill" /\ response.status = 200
    /\ response.content_type = "application/json"
    /\ IF Hits(script, request.q) = {} THEN response.body = <<>>
       ELSE LET d == Mocks(script)[FirstHit(script, request.q)].data IN
            /\ Len(response.body) = 1
            /\ response.body[1].lat = d.lat /\ response.body[1].lon = d.lon
            /\ response.body[1].display_name = d.display_name
            /\ response.body[1].address = d.address

\* a query naming two mocks, the later one first, has been answered with
\* the entry of the earlier one
C12_Witness ==
  /\ script = "verify_positioning" /\ request.search
  /\ response # NoResponse /\ Len(response.body) = 1
  /\ Hits(script, request.q) = {1, 3}
  /\ Contains(SubSeq(request.q, 1, 11), Mocks(script)[3].key)
  /\ response.body[1].display_name = "Tower of London, London, UK"

\* C13: no file this run has written is a file another script reads or
\* writes, and no file this run has read is one another script writes, so
\* a second script running alongside cannot change what this run finds.
Dirs == {"verification"}

WrittenBy(s) ==
  { Programs(s)[i].arg :
      i \in { j \in 1..Len(Programs(s)) :
                Programs(s)[j].op \in {"shot", "fs"} } } \ Dirs

ReadBy(s) ==
  { Programs(s)[i].arg :
      i \in { j \in 1..Len(Programs(s)) : Programs(s)[j].op = "upload" } }

C13_NoSharedFiles ==
  \A s \in Scripts \ {script} :
     /\ (hist.wrote \ Dirs) \cap (WrittenBy(s) \cup ReadBy(s)) = {}
     /\ hist.read \cap WrittenBy(s) = {}

\* C14: no screenshot is written over a file that is already on disk, in
\* this run or left there by the run before.
C14_AppendOnly == ~hist.overwrote

\* C15: a second run of the script against the same page ends as the first
\* did: the same exit status, the same reports, the same first failing step
\* and the same kind of error.
C15_SameOutcome ==
  (run = 2 /\ exit # NoExit) =>
    /\ exit = first.exit /\ reports = first.reports
    /\ hist.failedKind = first.kind /\ hist.failedAt = first.failedAt

\* verify_track_integration has passed twice: the first run created
\* test_track.gpx, the second found it on disk and did not write it
C15_Witness ==
  /\ script = "verify_track_integration" /\ run = 2 /\ exit = 0
  /\ first.exit = 0
  /\ "test_track.gpx" \in first.wrote
  /\ "test_track.gpx" \in hist.read \ hist.wrote

\* C16: in the add-a-place scenario, when no waited condition times out,
\* no action of the scenario fails (an action on the very element the step
\* before waited for is left out of account).
AddPlaceLines(s) ==
  CASE s = "verify_changes" -> 8..48
    [] s = "verify_place_editing" -> 9..36
    [] OTHER -> {}

C17_ResultTimeoutFails ==
  (Done /\ script = "verify_changes" /\ hist.failedAt = 33
        /\ hist.failedKind = "Timeout") =>
    (Cardinality(shots) = 1 /\ exit # 0 /\ "fail" \in reports)

\* C18: an assertion (expect) evaluates its predicate once: it is never
\* found polling again after a poll that found the predicate false.
C18_AssertOnce ==
  ~(/\ waitLine # 0 /\ elapsed > 0
    /\ Prog[PcOf(waitLine)].op = "expect")

\* C19: no script goes round an action because its element is absent, hidden
\* or disabled: a branch on the element's state never skips the action on it.
C19_NoSilentSkip == ~hist.skipped

\* C20: every listener and interception rule is attached before the first
\* navigation.
C20_ListenersBeforeNavigation == ~hist.lateListener

(***************************************************************************)
(* The selectors of the search-result and place-list steps, matched        *)
(* against a page.  An element is a div or an li, in the search dialog     *)
(* (the .fixed overlay) or in the Places list (div[role='list']); named    *)
(* says that its text contains the searched name, first that it is the     *)
(* first child of its parent.                                              *)
(***************************************************************************)
Elements ==
  [tag : {"div", "li"}, in : {"dialog", "list"}, named : BOOLEAN,
   first : BOOLEAN]

Doms == UNION { [1..n -> Elements] : n \in 0..MaxElems }

\* the element el is selected by the selector sel
Matches(sel, el) ==
  CASE sel \in {"li:has-text('{name}')", "li:has-text('London')"} ->
         el.tag = "li" /\ el.named
    [] sel = ".fixed li:has-text('{name}')" ->
         el.tag = "li" /\ el.in = "dialog" /\ el.named
    [] sel = "li:first-child" -> el.tag = "li" /\ el.first
    [] sel = "li" -> el.tag = "li"
    [] sel \in {"div:has-text('{name}')", "div:has-text('London')"} ->
         el.tag = "div" /\ el.named
    [] sel = "div[role='list'] >> text='{name}'" ->
         el.in = "list" /\ el.named
    [] sel = "div[role='listitem']" -> el.tag = "div" /\ el.in = "list"
    [] OTHER -> FALSE

Found(sel, dom) == { i \in 1..Len(dom) : Matches(sel, dom[i]) }

\* page.wait_for_selector(sel) returns: an element of the page matches
DomWait ==
  /\ At("wait") /\ Found(Cur.arg, hist.dom) # {}
  /\ pc' = pc + 1
  /\ hist' = [hist EXCEPT !.lastWait = Cur.arg]
  /\ UNCHANGED <<stack, name, exc, saved, elapsed, waitRes, waitLine, cond,
                 Frame>>

\* page.click(sel) after the wait: the click lands on the first match
DomClick ==
  /\ At("act") /\ hist.lastWait # "" /\ Found(Cur.arg, hist.dom) # {}
  /\ pc' = pc + 1
  /\ hist' = [hist EXCEPT !.target =
                 hist.dom[CHOOSE i \in Found(Cur.arg, hist.dom) :
                            \A j \in Found(Cur.arg, hist.dom) : i <= j]]
  /\ UNCHANGED <<stack, name, exc, saved, elapsed, waitRes, waitLine, cond,
                 Frame>>

\* the script stands at one of these waits, the page holding any elements
DomInit ==
  /\ script \in Scripts
  /\ pc \in { i \in 1..Len(Prog) :
                Prog[i].op = "wait" /\ \E el \in Elements : Matches(Prog[i].arg, el) }
  /\ stack = <<>> /\ name = "" /\ exc = NoExc /\ saved = NoExc
  /\ launched = TRUE /\ closeCount = 0 /\ shots = {}
  /\ exit = NoExit /\ reports = {}
  /\ elapsed = 0 /\ waitRes = "none" /\ waitLine = 0 /\ cond = FALSE
  /\ count = 0 /\ fs = {}
  /\ run = 1 /\ first = NoFirst /\ oracle = NoOracle
  /\ request = NoRequest /\ response = NoResponse
  /\ \E d \in Doms : hist = [InitHist EXCEPT !.dom = d]

DomNext == DomWait \/ DomClick

DomSpec == DomInit /\ [][DomNext]_vars

(***************************************************************************)
(* A run that keeps going: the interpreter and the page's timers take      *)
(* their next step whenever there is one (the process is never suspended). *)
(***************************************************************************)
FairSpec == Init /\ [][Next]_vars /\ WF_vars(Next)

\* the process ends, whatever the page does
Terminates == <>Done

\* C21: every run ends in teardown: eventually browser.close() has run, or
\* the process has ended with no browser ever launched.
C21_ReachesTeardown == <>(closeCount > 0 \/ (Done /\ ~launched))

\* C22: while no browser has been launched, and so after a launch that
\* failed, no page call, screenshot or close has been attempted.
C22_LaunchFailureAborts ==
  ~launched => (~hist.used /\ hist.firstStep = "none" /\ closeCount = 0)

\* the launch of verify_changes has failed and the process has ended
C22_Witness ==
  /\ script = "verify_changes" /\ Done /\ ~launched
  /\ exc.kind = "Error" /\ exc.line = 132

\* C23: no callback makes a page call: the calls made by callbacks, all of
\* them made while the script is inside a page call, are none of the page's
\* operations.
C23_CallbacksOffPage == hist.cbOps \cap (PageOps \cup {"close"}) = {}

\* the dialog callback of verify_places has run during a page call
C23_Witness ==
  /\ script = "verify_places" /\ "dialog.accept" \in hist.cbOps
  /\ Running /\ Cur.op \in PageOps

\* C24: once handle_route has run on a request, exactly one call has been
\* made on its route: fulfill for a geocoding search, continue_ for any
\* other request.
C24_ResolvedOnce ==
  response # NoResponse =>
    hist.routeCalls = << IF request.search THEN "fulfill" ELSE "continue" >>

\* a request that is no geocoding search has been continued
C24_Witness ==
  /\ ~request.search /\ response = [kind |-> "continue"]
  /\ hist.routeCalls = <<"continue">>

\* C25: in add_place and in the editing scenario, when the wait that
\* follows the click on a search result returns, the Places list holds an
\* item with the searched name.
C25_ListWaitNeedsListItem ==
  (/\ script \in {"verify_top_bottom", "verify_positioning",
                   "verify_place_editing"}
   /\ hist.target # NoEl /\ Prog[pc - 1].op = "wait") =>
    \E i \in 1..Len(hist.dom) :
       hist.dom[i].in = "list" /\ hist.dom[i].named

\* C26: a click made right after a wait for a search result lands on an
\* element that the waited selector selects.
C26_ClickHitsWaited ==
  (hist.target # NoEl /\ Prog[pc - 1].op = "act") =>
    Matches(hist.lastWait, hist.target)

\* C27: verify_track_integration gets past its auto-create check (to line
\* 130) only with the text counted 4 times.
C27_AutoCreateNeedsFour ==
  (script = "verify_track_integration" /\ Running /\ Cur.line = 130
     /\ exc = NoExc) => count = 4

\* C28: a run of verify_changes in which no page call has failed but the
\* wait for the Export menu, whatever its branches found missing, disabled
\* or invisible, ends without the failure report and with exit status 0:
\* verify_places has returned, every section having run.
C28_SoftChecksGoOn ==
  (/\ script = "verify_changes" /\ Done /\ launched
   /\ \A s \in hist.failedConds : s[1] = "text=GeoJSON") =>
    (exit = 0 /\ exc = NoExc /\ "fail" \notin reports /\ closeCount = 1)

\* the Export menu did not open and a later branch found its element
\* missing, and the run has ended with status 0 and no failure report
C28_Witness ==
  /\ script = "verify_changes" /\ Done /\ hist.failedAt = 64
  /\ hist.skipped /\ exit = 0 /\ "fail" \notin reports

\* C29: a script that comes to upload a file finds the file on disk.
C29_UploadHasFixture == (Running /\ Cur.op = "upload") => Sel \in fs

====
